---- MODULE Spec2Model ----
(***************************************************************************)
(* Model of src/connect4_gym.py: the Connect4 environment (class Connect4) *)
(* driven by reset() and step(action), with the opponent collaborator and  *)
(* the random source modelled as nondeterministic inputs.                  *)
(***************************************************************************)
EXTENDS Integers, Sequences, FiniteSets, TLC

\* ------------------------------------------------------------------ bounds
\* Boards of every shape rows x columns with rows * columns <= MaxCells that
\* are no wider than the square board of MaxCells cells
\* (columns * columns <= MaxCells).
MaxCells == 9
\* win_length ranges over 2..MaxWinLength (a run of at least two pieces).
MaxWinLength == 3

VARIABLES
    rows,        \* self.rows
    columns,     \* self.columns
    win_length,  \* self.win_length
    started,     \* TRUE once reset has created self._board / self._num_moves
    board,       \* self._board: board[row][column] in {0, 1, -1}, row 0 = bottom
    num_moves,   \* self._num_moves
    ret,         \* what the last call (reset or step) did and returned
    live,        \* history: reset has returned and no step since has
                 \* returned terminated = true
    steps        \* history: number of steps since reset returned, when
                 \* every one of them returned terminated = false; else -1

vars == <<rows, columns, win_length, started, board, num_moves, ret,
          live, steps>>

\* ----------------------------------------------------------------- helpers
Min(S) == CHOOSE x \in S : \A y \in S : x <= y

MinOf(a, b) == IF a <= b THEN a ELSE b

\* np.zeros((rows, columns), dtype=np.int8)
zeros == [r \in 0 .. rows - 1 |-> [c \in 0 .. columns - 1 |-> 0]]

\* self.action_space = spaces.Discrete(columns); action_space.contains(x)
contains(x) == x \in 0 .. columns - 1

\* self._board[-1, column]: the top-row cell of a column
top(b, column) == b[rows - 1][column]

\* ------------------------------------------------------- observation, mask
\* Variant of action_masks that reads the bottom row (index 0 for -1).
action_masks_bottom(b) == [c \in 0 .. columns - 1 |-> b[0][c] = 0]

\* action_masks(): self._board[-1] == 0
action_masks(b) == [c \in 0 .. columns - 1 |-> top(b, c) = 0]

\* Variant of get_observation whose second plane is "not the viewer's",
\* which also marks the empty cells.
get_observation_not_player(b, player) ==
    LET player_pieces ==
            [r \in 0 .. rows - 1 |->
                [c \in 0 .. columns - 1 |-> IF b[r][c] = player THEN 1 ELSE 0]]
        opponent_pieces ==
            [r \in 0 .. rows - 1 |->
                [c \in 0 .. columns - 1 |-> IF b[r][c] # player THEN 1 ELSE 0]]
    IN  <<player_pieces, opponent_pieces>>

\* _get_observation(player): np.stack([board == player, board == -player])
\* cast to float32, i.e. two planes of 0.0 / 1.0
get_observation(b, player) ==
    LET player_pieces ==
            [r \in 0 .. rows - 1 |->
                [c \in 0 .. columns - 1 |-> IF b[r][c] = player THEN 1 ELSE 0]]
        opponent_pieces ==
            [r \in 0 .. rows - 1 |->
                [c \in 0 .. columns - 1 |-> IF b[r][c] = -player THEN 1 ELSE 0]]
    IN  <<player_pieces, opponent_pieces>>

\* the value of "no observation" (the call raised, or nothing was called yet)
NoObs == <<>>

\* ------------------------------------------------------------------- _move
\* Variant of move that counts inside the row loop: one per row it visits.
move_counts_rows(b, n, column, piece) ==
    IF column < -columns \/ column >= columns
    THEN [board |-> b, num_moves |-> n, row |-> -1, raised |-> "IndexError"]
    ELSE
        LET col  == IF column < 0 THEN column + columns ELSE column
            free == {r \in 0 .. rows - 1 : b[r][col] = 0}
        IN  IF free = {}
            THEN [board |-> b, num_moves |-> n + rows, row |-> -1,
                  raised |-> "invalid move"]
            ELSE [board |-> [b EXCEPT ![Min(free)][col] = piece],
                  num_moves |-> n + Min(free) + 1, row |-> Min(free),
                  raised |-> "none"]

\* Variant of move that scans the rows from the top and fills the first
\* empty cell it meets.
move_from_top(b, n, column, piece) ==
    IF column < -columns \/ column >= columns
    THEN [board |-> b, num_moves |-> n + 1, row |-> -1, raised |-> "IndexError"]
    ELSE
        LET col  == IF column < 0 THEN column + columns ELSE column
            free == {r \in 0 .. rows - 1 : b[r][col] = 0}
            high == CHOOSE x \in free : \A y \in free : x >= y
        IN  IF free = {}
            THEN [board |-> b, num_moves |-> n + 1, row |-> -1,
                  raised |-> "invalid move"]
            ELSE [board |-> [b EXCEPT ![high][col] = piece],
                  num_moves |-> n + 1, row |-> high, raised |-> "none"]

\* _move(column, piece): increments _num_moves first, then scans the rows
\* bottom-up for the first empty cell of the column; raises when there is
\* none.  A negative column indexes from the end (numpy), an index outside
\* [-columns, columns) raises IndexError on the first board access.
move(b, n, column, piece) ==
    IF column < -columns \/ column >= columns
    THEN [board |-> b, num_moves |-> n + 1, row |-> -1, raised |-> "IndexError"]
    ELSE
        LET col  == IF column < 0 THEN column + columns ELSE column
            free == {r \in 0 .. rows - 1 : b[r][col] = 0}
        IN  IF free = {}
            THEN [board |-> b, num_moves |-> n + 1, row |-> -1,
                  raised |-> "invalid move"]
            ELSE [board |-> [b EXCEPT ![Min(free)][col] = piece],
                  num_moves |-> n + 1, row |-> Min(free), raised |-> "none"]

\* ------------------------------------------------------------ _line_length
\* _line_length(line): how many of line[1:] equal line[0] before the first
\* that differs.  Lines are sequences here, line[1] is numpy's line[0].
RECURSIVE line_scan(_, _)
line_scan(line, i) ==
    IF i > Len(line) THEN 0
    ELSE IF line[i] = line[1] THEN 1 + line_scan(line, i + 1)
    ELSE 0

line_length(line) == line_scan(line, 2)

\* the seven slices _is_win takes, each starting at the cell (row, column)
slice_down(b, row, column) ==            \* board[row::-1, column]
    [i \in 1 .. row + 1 |-> b[row - (i - 1)][column]]
slice_left(b, row, column) ==            \* board[row, column::-1]
    [i \in 1 .. column + 1 |-> b[row][column - (i - 1)]]
slice_right(b, row, column) ==           \* board[row, column:]
    [i \in 1 .. columns - column |-> b[row][column + (i - 1)]]
slice_up_right(b, row, column) ==        \* board[row:, column:].diagonal()
    [i \in 1 .. MinOf(rows - row, columns - column) |->
        b[row + (i - 1)][column + (i - 1)]]
slice_down_left(b, row, column) ==       \* board[row::-1, column::-1].diagonal()
    [i \in 1 .. MinOf(row + 1, column + 1) |->
        b[row - (i - 1)][column - (i - 1)]]
slice_up_left(b, row, column) ==         \* board[row:, column::-1].diagonal()
    [i \in 1 .. MinOf(rows - row, column + 1) |->
        b[row + (i - 1)][column - (i - 1)]]
slice_down_right(b, row, column) ==      \* board[row::-1, column:].diagonal()
    [i \in 1 .. MinOf(row + 1, columns - column) |->
        b[row - (i - 1)][column + (i - 1)]]

\* Variant of is_win that leaves out the placed piece itself (no "+ 1").
is_win_no_self(b, row, column) ==
    \/ line_length(slice_down(b, row, column)) >= win_length
    \/ line_length(slice_left(b, row, column))
         + line_length(slice_right(b, row, column)) >= win_length
    \/ line_length(slice_up_right(b, row, column))
         + line_length(slice_down_left(b, row, column)) >= win_length
    \/ line_length(slice_up_left(b, row, column))
         + line_length(slice_down_right(b, row, column)) >= win_length

\* Variant of is_win whose last test pairs the up-left arm with the
\* down-left arm, adding arms of two different diagonals.
is_win_mixed(b, row, column) ==
    \/ line_length(slice_down(b, row, column)) + 1 >= win_length
    \/ line_length(slice_left(b, row, column))
         + line_length(slice_right(b, row, column)) + 1 >= win_length
    \/ line_length(slice_up_right(b, row, column))
         + line_length(slice_down_left(b, row, column)) + 1 >= win_length
    \/ line_length(slice_up_left(b, row, column))
         + line_length(slice_down_left(b, row, column)) + 1 >= win_length

\* Variant of _is_win without the test down the column.
is_win_no_column(b, row, column) ==
    \/ line_length(slice_left(b, row, column))
         + line_length(slice_right(b, row, column)) + 1 >= win_length
    \/ line_length(slice_up_right(b, row, column))
         + line_length(slice_down_left(b, row, column)) + 1 >= win_length
    \/ line_length(slice_up_left(b, row, column))
         + line_length(slice_down_right(b, row, column)) + 1 >= win_length

\* Variant of _is_win whose row test counts to the left only.
is_win_left_only(b, row, column) ==
    \/ line_length(slice_down(b, row, column)) + 1 >= win_length
    \/ line_length(slice_left(b, row, column)) + 1 >= win_length
    \/ line_length(slice_up_right(b, row, column))
         + line_length(slice_down_left(b, row, column)) + 1 >= win_length
    \/ line_length(slice_up_left(b, row, column))
         + line_length(slice_down_right(b, row, column)) + 1 >= win_length

\* ----------------------------------------------------------------- _is_win
is_win(b, row, column) ==
    \/ line_length(slice_down(b, row, column)) + 1 >= win_length
    \/ line_length(slice_left(b, row, column))
         + line_length(slice_right(b, row, column)) + 1 >= win_length
    \/ line_length(slice_up_right(b, row, column))
         + line_length(slice_down_left(b, row, column)) + 1 >= win_length
    \/ line_length(slice_up_left(b, row, column))
         + line_length(slice_down_right(b, row, column)) + 1 >= win_length

\* ------------------------------------------------------------ call records
\* ret records the last call: which operation, the exception it raised
\* ("none" when it returned), the tuple it returned, and how often it called
\* the opponent factory and the opponent policy.
Outcome(op, raised, obs, reward, terminated, factory_calls, opp_calls) ==
    [op |-> op, raised |-> raised, obs |-> obs,
     reward |-> reward, terminated |-> terminated, truncated |-> FALSE,
     factory_calls |-> factory_calls, opp_calls |-> opp_calls]

NoCall == Outcome("none", "none", NoObs, 0, FALSE, 0, 0)

\* what _opponent_move calls the opponent policy with on board b:
\* (self._get_observation(-1), self.action_masks())
opponent_args(b) == <<get_observation(b, -1), action_masks(b)>>

\* Variant of opponent_move that validates the range of the reply only and
\* leaves a full column to _move.
opponent_move_no_full_check(b, n, column) ==
    IF ~contains(column)
    THEN [board |-> b, num_moves |-> n, row |-> -1,
          raised |-> "invalid opponent move", args |-> opponent_args(b)]
    ELSE LET m == move(b, n, column, -1)
         IN  [board |-> m.board, num_moves |-> m.num_moves, row |-> m.row,
              raised |-> m.raised, args |-> opponent_args(b)]

\* Variant of opponent_move that shows the policy the board from the agent's
\* viewpoint (player 1).
opponent_move_agent_view(b, n, column) ==
    IF ~contains(column) \/ top(b, column) # 0
    THEN [board |-> b, num_moves |-> n, row |-> -1,
          raised |-> "invalid opponent move",
          args |-> <<get_observation(b, 1), action_masks(b)>>]
    ELSE LET m == move(b, n, column, -1)
         IN  [board |-> m.board, num_moves |-> m.num_moves, row |-> m.row,
              raised |-> m.raised,
              args |-> <<get_observation(b, 1), action_masks(b)>>]

\* Variant of _opponent_move whose piece is not counted in _num_moves.
opponent_move_uncounted(b, n, column) ==
    IF ~contains(column) \/ top(b, column) # 0
    THEN [board |-> b, num_moves |-> n, row |-> -1,
          raised |-> "invalid opponent move", args |-> opponent_args(b)]
    ELSE LET m == move(b, n, column, -1)
         IN  [board |-> m.board, num_moves |-> n, row |-> m.row,
              raised |-> m.raised, args |-> opponent_args(b)]

\* ---------------------------------------------------------- _opponent_move
\* _opponent_move(): `column` is what the opponent policy returned for
\* (observation(-1), action_masks()); it is validated, then applied as -1.
\* `args` records what the policy was called with.
opponent_move(b, n, column) ==
    IF ~contains(column) \/ top(b, column) # 0
    THEN [board |-> b, num_moves |-> n, row |-> -1,
          raised |-> "invalid opponent move", args |-> opponent_args(b)]
    ELSE LET m == move(b, n, column, -1)
         IN  [board |-> m.board, num_moves |-> m.num_moves, row |-> m.row,
              raised |-> m.raised, args |-> opponent_args(b)]

\* Variant of reset that lets the opponent open on the board in place
\* instead of on the cleared one.
reset_keeps_board(b, n, opponent_first, reply) ==
    IF ~opponent_first
    THEN [board |-> zeros, num_moves |-> 0,
          ret |-> Outcome("reset", "none", get_observation(zeros, 1),
                          0, FALSE, 1, 0)]
    ELSE
        LET m == opponent_move(b, 0, reply)
        IN  IF m.raised # "none"
            THEN [board |-> m.board, num_moves |-> m.num_moves,
                  args |-> m.args,
                  ret |-> Outcome("reset", m.raised, NoObs, 0, FALSE, 1, 1)]
            ELSE [board |-> m.board, num_moves |-> m.num_moves,
                  args |-> m.args,
                  ret |-> Outcome("reset", "none",
                                  get_observation(m.board, 1), 0, FALSE, 1, 1)]

\* -------------------------------------------------------------------- reset
\* reset() called with board b and counter n in place (both are overwritten):
\* new opponent from the factory, empty board, zero counter; when
\* np_random.choice([True, False]) is True the opponent moves first (`reply`
\* is the column its policy returns).  Result: the new board and counter and
\* the call record.
reset(b, n, opponent_first, reply) ==
    IF ~opponent_first
    THEN [board |-> zeros, num_moves |-> 0,
          ret |-> Outcome("reset", "none", get_observation(zeros, 1),
                          0, FALSE, 1, 0)]
    ELSE
        LET m == opponent_move(zeros, 0, reply)
        IN  IF m.raised # "none"
            THEN [board |-> m.board, num_moves |-> m.num_moves,
                  args |-> m.args,
                  ret |-> Outcome("reset", m.raised, NoObs, 0, FALSE, 1, 1)]
            ELSE [board |-> m.board, num_moves |-> m.num_moves,
                  args |-> m.args,
                  ret |-> Outcome("reset", "none",
                                  get_observation(m.board, 1), 0, FALSE, 1, 1)]

\* Variant of step_agent without the board-full test after the agent's move.
step_agent_no_full_check(b, n, action) ==
    IF ~contains(action)
    THEN [board |-> b, num_moves |-> n, pending |-> FALSE,
          ret |-> Outcome("step", "invalid action", NoObs, 0, FALSE, 0, 0)]
    ELSE IF ~started
    THEN \* self._board does not exist before the first reset
         [board |-> b, num_moves |-> n, pending |-> FALSE,
          ret |-> Outcome("step", "AttributeError", NoObs, 0, FALSE, 0, 0)]
    ELSE IF top(b, action) # 0
    THEN [board |-> b, num_moves |-> n, pending |-> FALSE,
          ret |-> Outcome("step", "invalid action", NoObs, 0, FALSE, 0, 0)]
    ELSE
        LET m1 == move(b, n, action, 1)
        IN  IF is_win(m1.board, m1.row, action)
            THEN [board |-> m1.board, num_moves |-> m1.num_moves,
                  pending |-> FALSE,
                  ret |-> Outcome("step", "none",
                                  get_observation(m1.board, 1), 1, TRUE, 0, 0)]
            ELSE [board |-> m1.board, num_moves |-> m1.num_moves,
                  pending |-> TRUE, ret |-> NoCall]

\* Variant of step_agent that accepts any column of the grid, full or not,
\* and lets _move raise.
step_agent_no_column_check(b, n, action) ==
    IF ~contains(action)
    THEN [board |-> b, num_moves |-> n, pending |-> FALSE,
          ret |-> Outcome("step", "invalid action", NoObs, 0, FALSE, 0, 0)]
    ELSE IF ~started
    THEN \* self._board does not exist before the first reset
         [board |-> b, num_moves |-> n, pending |-> FALSE,
          ret |-> Outcome("step", "AttributeError", NoObs, 0, FALSE, 0, 0)]
    ELSE
        LET m1 == move(b, n, action, 1)
        IN  IF m1.raised # "none"
            THEN [board |-> m1.board, num_moves |-> m1.num_moves,
                  pending |-> FALSE,
                  ret |-> Outcome("step", m1.raised, NoObs, 0, FALSE, 0, 0)]
            ELSE IF is_win(m1.board, m1.row, action)
            THEN [board |-> m1.board, num_moves |-> m1.num_moves,
                  pending |-> FALSE,
                  ret |-> Outcome("step", "none",
                                  get_observation(m1.board, 1), 1, TRUE, 0, 0)]
            ELSE IF m1.num_moves = rows * columns
            THEN [board |-> m1.board, num_moves |-> m1.num_moves,
                  pending |-> FALSE,
                  ret |-> Outcome("step", "none",
                                  get_observation(m1.board, 1), 0, TRUE, 0, 0)]
            ELSE [board |-> m1.board, num_moves |-> m1.num_moves,
                  pending |-> TRUE, ret |-> NoCall]

\* --------------------------------------------------------------------- step
\* step(action), lines 66-74: the action is validated and applied as piece 1
\* on board b with counter n; the step is over when the call raised or
\* returned, and `pending` when it goes on to the opponent.
step_agent(b, n, action) ==
    IF ~contains(action)
    THEN [board |-> b, num_moves |-> n, pending |-> FALSE,
          ret |-> Outcome("step", "invalid action", NoObs, 0, FALSE, 0, 0)]
    ELSE IF ~started
    THEN \* self._board does not exist before the first reset
         [board |-> b, num_moves |-> n, pending |-> FALSE,
          ret |-> Outcome("step", "AttributeError", NoObs, 0, FALSE, 0, 0)]
    ELSE IF top(b, action) # 0
    THEN [board |-> b, num_moves |-> n, pending |-> FALSE,
          ret |-> Outcome("step", "invalid action", NoObs, 0, FALSE, 0, 0)]
    ELSE
        LET m1 == move(b, n, action, 1)
        IN  IF is_win(m1.board, m1.row, action)
            THEN [board |-> m1.board, num_moves |-> m1.num_moves,
                  pending |-> FALSE,
                  ret |-> Outcome("step", "none",
                                  get_observation(m1.board, 1), 1, TRUE, 0, 0)]
            ELSE IF m1.num_moves = rows * columns
            THEN [board |-> m1.board, num_moves |-> m1.num_moves,
                  pending |-> FALSE,
                  ret |-> Outcome("step", "none",
                                  get_observation(m1.board, 1), 0, TRUE, 0, 0)]
            ELSE [board |-> m1.board, num_moves |-> m1.num_moves,
                  pending |-> TRUE, ret |-> NoCall]

\* Variant of step_opponent that tests for a full board before it tests for
\* the opponent's win.
step_opponent_draw_first(b, n, reply) ==
    LET m2 == opponent_move(b, n, reply)
    IN  IF m2.raised # "none"
        THEN [board |-> m2.board, num_moves |-> m2.num_moves,
              pending |-> FALSE, args |-> m2.args,
              ret |-> Outcome("step", m2.raised, NoObs, 0, FALSE, 0, 1)]
        ELSE IF m2.num_moves = rows * columns
        THEN [board |-> m2.board, num_moves |-> m2.num_moves,
              pending |-> FALSE, args |-> m2.args,
              ret |-> Outcome("step", "none",
                              get_observation(m2.board, 1), 0, TRUE, 0, 1)]
        ELSE IF is_win(m2.board, m2.row, reply)
        THEN [board |-> m2.board, num_moves |-> m2.num_moves,
              pending |-> FALSE, args |-> m2.args,
              ret |-> Outcome("step", "none",
                              get_observation(m2.board, 1), -1, TRUE, 0, 1)]
        ELSE [board |-> m2.board, num_moves |-> m2.num_moves,
              pending |-> FALSE, args |-> m2.args,
              ret |-> Outcome("step", "none",
                              get_observation(m2.board, 1), 0, FALSE, 0, 1)]

\* step(action), lines 76-83: the opponent's turn on the board the agent left;
\* `reply` is the column the opponent policy returns, `args` what the policy
\* was called with.
step_opponent(b, n, reply) ==
    LET m2 == opponent_move(b, n, reply)
    IN  IF m2.raised # "none"
        THEN [board |-> m2.board, num_moves |-> m2.num_moves,
              pending |-> FALSE, args |-> m2.args,
              ret |-> Outcome("step", m2.raised, NoObs, 0, FALSE, 0, 1)]
        ELSE IF is_win(m2.board, m2.row, reply)
        THEN [board |-> m2.board, num_moves |-> m2.num_moves,
              pending |-> FALSE, args |-> m2.args,
              ret |-> Outcome("step", "none",
                              get_observation(m2.board, 1), -1, TRUE, 0, 1)]
        ELSE IF m2.num_moves = rows * columns
        THEN [board |-> m2.board, num_moves |-> m2.num_moves,
              pending |-> FALSE, args |-> m2.args,
              ret |-> Outcome("step", "none",
                              get_observation(m2.board, 1), 0, TRUE, 0, 1)]
        ELSE [board |-> m2.board, num_moves |-> m2.num_moves,
              pending |-> FALSE, args |-> m2.args,
              ret |-> Outcome("step", "none",
                              get_observation(m2.board, 1), 0, FALSE, 0, 1)]

\* the rest of a step whose agent half gave `a`
step_from(a, reply) ==
    IF a.pending THEN step_opponent(a.board, a.num_moves, reply) ELSE a

\* step(action) as a whole: the board, the counter and the call record it
\* leaves, given the column `reply` the opponent returns if it is asked
step(b, n, action, reply) == step_from(step_agent(b, n, action), reply)

\* ------------------------------------------------------------------ inputs
\* step arguments and opponent replies: every column, one index below the
\* range and one above it
Inputs == -1 .. columns

\* ------------------------------------------------------------ state machine
\* After construction: the parameters are fixed, reset has not run yet (the
\* board attribute does not exist; an empty grid stands in for it).
Init ==
    /\ columns \in 1 .. MaxCells
    /\ columns * columns <= MaxCells
    /\ rows \in 1 .. MaxCells
    /\ rows * columns <= MaxCells
    /\ win_length \in 2 .. MaxWinLength
    /\ started = FALSE
    /\ board = zeros
    /\ num_moves = 0
    /\ ret = NoCall
    /\ live = FALSE
    /\ steps = -1

Reset ==
    \E opponent_first \in BOOLEAN, reply \in Inputs :
        LET r == reset(board, num_moves, opponent_first, reply)
        IN  /\ started' = TRUE
            /\ board' = r.board
            /\ num_moves' = r.num_moves
            /\ ret' = r.ret
            /\ UNCHANGED <<rows, columns, win_length>>

Step ==
    \E action \in Inputs :
        LET a == step_agent(board, num_moves, action)
        IN  \E r \in IF a.pending
                     THEN {step_from(a, reply) : reply \in Inputs}
                     ELSE {a} :
                /\ board' = r.board
                /\ num_moves' = r.num_moves
                /\ ret' = r.ret
                /\ UNCHANGED <<rows, columns, win_length, started>>

\* the calls alone; the history variables are not recorded
ResetCall == Reset /\ UNCHANGED <<live, steps>>

StepCall == Step /\ UNCHANGED <<live, steps>>

Next == ResetCall \/ StepCall

Spec == Init /\ [][Next]_vars

\* the calls with the history of the episode recorded: an episode starts
\* when reset returns, is over once a step returns terminated = true, and
\* its steps are counted for as long as none of them raised
EpisodeReset ==
    /\ Reset
    /\ live' = (ret'.raised = "none")
    /\ steps' = IF ret'.raised = "none" THEN 0 ELSE -1

EpisodeStep ==
    /\ Step
    /\ live' = (live /\ ~(ret'.raised = "none" /\ ret'.terminated))
    /\ steps' = IF steps >= 0 /\ ret'.raised = "none" /\ ~ret'.terminated
                THEN steps + 1
                ELSE -1

NextEpisode == EpisodeReset \/ EpisodeStep

SpecEpisode == Init /\ [][NextEpisode]_vars

\* the board of the constructor's defaults
DefaultRows == 6
DefaultColumns == 7
DefaultWinLength == 4

\* Connect4() with the default parameters, before reset
InitDefault ==
    /\ rows = DefaultRows
    /\ columns = DefaultColumns
    /\ win_length = DefaultWinLength
    /\ started = FALSE
    /\ board = zeros
    /\ num_moves = 0
    /\ ret = NoCall
    /\ live = FALSE
    /\ steps = -1

\* step(3) against any reply of the opponent
StepCentre ==
    LET a == step_agent(board, num_moves, 3)
    IN  \E r \in IF a.pending
                 THEN {step_from(a, reply) : reply \in Inputs}
                 ELSE {a} :
            /\ board' = r.board
            /\ num_moves' = r.num_moves
            /\ ret' = r.ret
            /\ UNCHANGED <<rows, columns, win_length, started, live, steps>>

NextDefault == ResetCall \/ StepCentre

SpecDefault == InitDefault /\ [][NextDefault]_vars

\* =================================================================== claims
\* What the claims speak of, stated on the grid itself (independently of the
\* incremental code above).
Cells == (0 .. rows - 1) \X (0 .. columns - 1)

InGrid(r, c) == r \in 0 .. rows - 1 /\ c \in 0 .. columns - 1

OccupiedCells(b) == {rc \in Cells : b[rc[1]][rc[2]] # 0}

CellsOf(b, piece) == {rc \in Cells : b[rc[1]][rc[2]] = piece}

IsFull(b) == \A rc \in Cells : b[rc[1]][rc[2]] # 0

\* the column has at least one empty cell
ColumnOpen(b, c) == \E r \in 0 .. rows - 1 : b[r][c] = 0

\* a legal move: a column of the grid that is not full
Legal(b, c) == c \in 0 .. columns - 1 /\ ColumnOpen(b, c)

LowestEmpty(b, c) == Min({r \in 0 .. rows - 1 : b[r][c] = 0})

Place(b, r, c, piece) == [b EXCEPT ![r][c] = piece]

\* the four axes as (row step, column step): vertical, horizontal, rising
\* diagonal, falling diagonal
Axes == {<<1, 0>>, <<0, 1>>, <<1, 1>>, <<1, -1>>}

\* Full rescan of one line: some window of win_length consecutive cells of
\* the line through (row, column) along axis d contains (row, column), lies
\* in the grid and holds the same piece throughout.
RunOnAxis(b, row, column, d) ==
    \E k \in 0 .. win_length - 1 :
        \A i \in 0 .. win_length - 1 :
            /\ InGrid(row + (i - k) * d[1], column + (i - k) * d[2])
            /\ b[row + (i - k) * d[1]][column + (i - k) * d[2]] = b[row][column]

HasRun(b, row, column) ==
    b[row][column] # 0 /\ \E d \in Axes : RunOnAxis(b, row, column, d)

\* the board after `piece` is dropped into column c
Drop(b, c, piece) == Place(b, LowestEmpty(b, c), c, piece)

\* the piece dropped into column c of b completes a run
DropWins(b, c, piece) == HasRun(Drop(b, c, piece), LowestEmpty(b, c), c)

\* the agent's move on b ends the step: it wins or fills the board
AgentEnds(b, action) ==
    DropWins(b, action, 1) \/ IsFull(Drop(b, action, 1))

\* the (reward, terminated) pair the ordered rules give for a legal action
\* answered by a legal reply
ExpectedResult(b, action, reply) ==
    IF DropWins(b, action, 1) THEN <<1, TRUE>>
    ELSE IF IsFull(Drop(b, action, 1)) THEN <<0, TRUE>>
    ELSE LET b1 == Drop(b, action, 1)
         IN  IF DropWins(b1, reply, -1) THEN <<-1, TRUE>>
             ELSE IF IsFull(Drop(b1, reply, -1)) THEN <<0, TRUE>>
             ELSE <<0, FALSE>>

\* C1: every step call that returns yields truncated = false and the
\* (reward, terminated) pair decided in order: agent's piece completes a run
\* -> (+1, true); board full after the agent's move -> (0, true); opponent's
\* reply completes a run -> (-1, true); board full after the reply ->
\* (0, true); otherwise (0, false).  A nonzero reward comes only with
\* terminated = true.
C1_StepResult ==
    started =>
        \A action \in Inputs :
            LET a == step_agent(board, num_moves, action)
            IN  \A reply \in Inputs :
                    LET r == step_from(a, reply)
                    IN  r.ret.raised = "none" =>
                            /\ r.ret.truncated = FALSE
                            /\ <<r.ret.reward, r.ret.terminated>>
                                   = ExpectedResult(board, action, reply)
                            /\ (r.ret.reward # 0 => r.ret.terminated)

\* a step returned a draw that the opponent's reply produced by filling the
\* board (the fourth rule of the order)
C1_Witness ==
    /\ ret.op = "step" /\ ret.raised = "none"
    /\ ret.reward = 0 /\ ret.terminated /\ ret.opp_calls = 1
    /\ IsFull(board)
    /\ rows >= 2 /\ columns >= 2

\* C2: once a step has returned terminated = true, every further step call
\* fails with an error and places no piece, whatever the action.
C2_TerminatedRejectsStep ==
    (ret.op = "step" /\ ret.raised = "none" /\ ret.terminated) =>
        \A action \in Inputs, reply \in Inputs :
            LET r == step(board, num_moves, action, reply)
            IN  r.ret.raised # "none" /\ r.board = board

\* C3: within one step the opponent is asked only after the agent's move was
\* applied and found neither winning nor board-filling; when the agent's move
\* wins or fills the board the opponent is not called, no PlayerB piece is
\* placed and move_count grows by exactly 1.
C3_OpponentOnlyAfterAgent ==
    started =>
        \A action \in Inputs :
            LET b1   == Drop(board, action, 1)
                ends == Legal(board, action) /\ AgentEnds(board, action)
                a    == step_agent(board, num_moves, action)
            IN  \A reply \in Inputs :
                    LET r == step_from(a, reply)
                    IN  /\ ends =>
                            /\ r.ret.opp_calls = 0
                            /\ r.board = b1
                            /\ CellsOf(r.board, -1) = CellsOf(board, -1)
                            /\ r.num_moves = num_moves + 1
                        /\ r.ret.opp_calls > 0 =>
                            /\ Legal(board, action)
                            /\ ~ends
                            /\ CellsOf(b1, 1) \subseteq CellsOf(r.board, 1)

\* a step ended on the agent's move filling the board without a win: the
\* opponent was not asked
C3_Witness ==
    /\ ret.op = "step" /\ ret.raised = "none"
    /\ ret.reward = 0 /\ ret.terminated /\ ret.opp_calls = 0
    /\ IsFull(board)
    /\ rows >= 2 /\ columns >= 2

\* C4: a step whose action is outside [0, columns) or names a full column
\* raises before anything happens: grid and move_count unchanged, opponent
\* not asked.
C4_InvalidActionRaises ==
    \A action \in Inputs, reply \in Inputs :
        (~contains(action) \/ (started /\ ~ColumnOpen(board, action))) =>
            LET r == step(board, num_moves, action, reply)
            IN  /\ r.ret.raised = "invalid action"
                /\ r.board = board
                /\ r.num_moves = num_moves
                /\ r.ret.opp_calls = 0

\* a step raised on its action while the board had a full column and was not
\* itself full
C4_Witness ==
    /\ ret.op = "step" /\ ret.raised = "invalid action"
    /\ \E c \in 0 .. columns - 1 : ~ColumnOpen(board, c)
    /\ ~IsFull(board)
    /\ rows >= 2

\* C5: when the opponent returns a column out of range or full, step raises
\* the opponent-move error and the board is as it was before the opponent's
\* turn: the agent's piece stays, no PlayerB piece is added, move_count is
\* the pre-step value plus 1, and the opponent is not asked again.
C5_IllegalOpponentReply ==
    started =>
        \A action \in Inputs :
            (Legal(board, action) /\ ~AgentEnds(board, action)) =>
                LET b1 == Drop(board, action, 1)
                IN  \A reply \in Inputs :
                        ~Legal(b1, reply) =>
                            LET r == step(board, num_moves, action, reply)
                            IN  /\ r.ret.raised = "invalid opponent move"
                                /\ r.board = b1
                                /\ r.num_moves = num_moves + 1
                                /\ r.ret.opp_calls = 1

\* a step raised on the opponent's reply while a column was full: the
\* agent's piece of that step is on the board, one more than the opponent's
C5_Witness ==
    /\ ret.op = "step" /\ ret.raised = "invalid opponent move"
    /\ Cardinality(CellsOf(board, 1)) = Cardinality(CellsOf(board, -1)) + 1
    /\ \E c \in 0 .. columns - 1 : ~ColumnOpen(board, c)
    /\ rows >= 2

\* C6: for every board reached by gravity-fed moves and the cell of the piece
\* just dropped, the incremental win check is true iff a full rescan of the
\* vertical, horizontal, rising-diagonal and falling-diagonal lines through
\* that cell finds a same-player run of length >= win_length containing it
\* (each axis on its own).
C6_WinCheckMatchesRescan ==
    started =>
        \A column \in 0 .. columns - 1, piece \in {1, -1} :
            ColumnOpen(board, column) =>
                LET m == move(board, num_moves, column, piece)
                IN  is_win(m.board, m.row, column)
                        <=> HasRun(m.board, m.row, column)

\* the cell (r, c) is the top piece of its column
TopPiece(b, r, c) ==
    b[r][c] # 0 /\ (r = rows - 1 \/ b[r + 1][c] = 0)

\* a step returned a win or a loss on a board where a top piece lies on a
\* diagonal run of three and on no vertical or horizontal run
C6_Witness ==
    /\ ret.op = "step" /\ ret.raised = "none" /\ ret.reward # 0
    /\ win_length = 3
    /\ \E rc \in Cells :
        /\ TopPiece(board, rc[1], rc[2])
        /\ is_win(board, rc[1], rc[2])
        /\ RunOnAxis(board, rc[1], rc[2], <<1, 1>>)
               \/ RunOnAxis(board, rc[1], rc[2], <<1, -1>>)
        /\ ~RunOnAxis(board, rc[1], rc[2], <<1, 0>>)
        /\ ~RunOnAxis(board, rc[1], rc[2], <<0, 1>>)

\* C7: in every state reached by reset and step calls (raising ones included)
\* move_count equals the number of non-empty cells, i.e. the number k of
\* moves applied since the last reset, and never exceeds rows * columns.
C7_MoveCountIsOccupied ==
    /\ num_moves = Cardinality(OccupiedCells(board))
    /\ num_moves <= rows * columns

\* a step has raised on the opponent's reply in mid-game: the agent's piece
\* was counted, nothing else
C7_Witness ==
    /\ ret.op = "step" /\ ret.raised = "invalid opponent move"
    /\ num_moves >= 3
    /\ num_moves < rows * columns

\* C8: the action mask of column c (top cell empty) is true iff column c has
\* an empty cell; a column with no empty cell is never legal, and on a full
\* board (move_count = rows * columns) the mask is all false.
C8_MaskIffColumnOpen ==
    /\ \A c \in 0 .. columns - 1 :
        action_masks(board)[c] <=> ColumnOpen(board, c)
    /\ num_moves = rows * columns =>
        \A c \in 0 .. columns - 1 : ~action_masks(board)[c]

\* a board of several rows with one column full and masked out, another open
C8_Witness ==
    /\ started /\ rows >= 2
    /\ \E c \in 0 .. columns - 1 :
        ~ColumnOpen(board, c) /\ ~action_masks(board)[c]
    /\ \E c \in 0 .. columns - 1 :
        ColumnOpen(board, c) /\ action_masks(board)[c] /\ board[0][c] # 0

\* C9: for either viewing player the two observation planes are disjoint,
\* plane 0 marks exactly the viewer's cells and plane 1 exactly the other
\* player's, and the cells set in either number move_count; the observation
\* reset and step return is the one from PlayerA's (piece 1) viewpoint.
C9_ObservationPlanes ==
    /\ \A player \in {1, -1} :
        LET obs == get_observation(board, player)
            set0 == {rc \in Cells : obs[1][rc[1]][rc[2]] = 1}
            set1 == {rc \in Cells : obs[2][rc[1]][rc[2]] = 1}
        IN  /\ \A rc \in Cells :
                /\ obs[1][rc[1]][rc[2]] \in {0, 1}
                /\ obs[2][rc[1]][rc[2]] \in {0, 1}
            /\ set0 \cap set1 = {}
            /\ set0 = CellsOf(board, player)
            /\ set1 = CellsOf(board, -player)
            /\ Cardinality(set0 \cup set1) = num_moves
    /\ (ret.op \in {"reset", "step"} /\ ret.raised = "none") =>
        /\ {rc \in Cells : ret.obs[1][rc[1]][rc[2]] = 1} = CellsOf(board, 1)
        /\ {rc \in Cells : ret.obs[2][rc[1]][rc[2]] = 1} = CellsOf(board, -1)

\* a step returned an observation of a board where both players have pieces
\* and PlayerA has more of them
C9_Witness ==
    /\ ret.op = "step" /\ ret.raised = "none"
    /\ Cardinality(CellsOf(board, -1)) >= 2
    /\ Cardinality(CellsOf(board, 1)) > Cardinality(CellsOf(board, -1))

\* the grid after a fresh start: empty with count 0, or one PlayerB piece in
\* row 0 of a column of the grid with count 1
FreshEpisode(b, n) ==
    \/ OccupiedCells(b) = {} /\ n = 0
    \/ /\ n = 1
       /\ \E c \in 0 .. columns - 1 :
            OccupiedCells(b) = {<<0, c>>} /\ b[0][c] = -1

\* C10: reset may be called from any state and yields a fresh episode: the
\* opponent factory is called once and on return the grid is empty with
\* move_count 0, or holds exactly one PlayerB piece in row 0 of a legal
\* column with move_count 1; nothing of the previous game survives.
C10_ResetIsFresh ==
    /\ \A opponent_first \in BOOLEAN, reply \in Inputs :
        LET r == reset(board, num_moves, opponent_first, reply)
        IN  /\ r.ret.factory_calls = 1
            /\ r.ret.raised = "none" => FreshEpisode(r.board, r.num_moves)
    /\ ret.op = "reset" =>
        /\ ret.factory_calls = 1
        /\ ret.raised = "none" => FreshEpisode(board, num_moves)

\* reset returned after the opponent's opening move on a board of several
\* rows and columns
C10_Witness ==
    /\ ret.op = "reset" /\ ret.raised = "none"
    /\ num_moves = 1 /\ ret.opp_calls = 1
    /\ rows >= 2 /\ columns >= 2

\* C11: apply_move into a full column always fails, for every column and
\* fill level, and a failed apply_move leaves both the grid and move_count
\* unchanged (move_count is incremented only on success).
C11_FullColumnMoveFails ==
    started =>
        \A column \in 0 .. columns - 1, piece \in {1, -1} :
            ~ColumnOpen(board, column) =>
                LET m == move(board, num_moves, column, piece)
                IN  /\ m.raised # "none"
                    /\ m.board = board
                    /\ m.num_moves = num_moves

\* C16: a successful apply_move(column, piece) writes piece into the lowest
\* empty row of the column, returns that row and changes no other cell; so
\* in every reachable state each column is filled contiguously from row 0,
\* and no step changes or empties a non-empty cell.
C16_GravityAndFrame ==
    /\ \A rc \in Cells :
        (rc[1] > 0 /\ board[rc[1]][rc[2]] # 0) => board[rc[1] - 1][rc[2]] # 0
    /\ \A column \in 0 .. columns - 1, piece \in {1, -1} :
        ColumnOpen(board, column) =>
            LET m == move(board, num_moves, column, piece)
            IN  /\ m.raised = "none"
                /\ m.row = LowestEmpty(board, column)
                /\ m.board[m.row][column] = piece
                /\ \A rc \in Cells :
                    rc # <<m.row, column>> =>
                        m.board[rc[1]][rc[2]] = board[rc[1]][rc[2]]
    /\ LET occupied == OccupiedCells(board)
       IN  \A action \in Inputs :
               LET a == step_agent(board, num_moves, action)
               IN  IF a.pending
                   THEN \A reply \in Inputs :
                            LET r == step_from(a, reply)
                            IN  \A rc \in occupied :
                                    r.board[rc[1]][rc[2]]
                                        = board[rc[1]][rc[2]]
                   ELSE \A rc \in occupied :
                            a.board[rc[1]][rc[2]] = board[rc[1]][rc[2]]

\* a step returned on a board of three rows or more where one column holds
\* pieces of both players below an empty cell and another column is empty
C16_Witness ==
    /\ ret.op = "step" /\ ret.raised = "none" /\ rows >= 3
    /\ \E c \in 0 .. columns - 1 :
        /\ board[0][c] # 0 /\ board[1][c] = -board[0][c]
        /\ board[rows - 1][c] = 0
    /\ \E c \in 0 .. columns - 1 : board[0][c] = 0

\* C20: apply_move rejects every column index outside [0, columns), negative
\* ones included, with an error and without placing a piece or changing
\* move_count.
C20_OutOfRangeMoveRejected ==
    started =>
        \A column \in Inputs, piece \in {1, -1} :
            column \notin 0 .. columns - 1 =>
                LET m == move(board, num_moves, column, piece)
                IN  /\ m.raised # "none"
                    /\ m.board = board
                    /\ m.num_moves = num_moves

\* C13: turns strictly alternate: in every state reached by reset and step
\* calls (also after a step returned terminated = true or raised on the
\* opponent's reply) the numbers of PlayerA and PlayerB pieces differ by at
\* most 1.
C13_TurnsAlternate ==
    Cardinality(CellsOf(board, 1)) - Cardinality(CellsOf(board, -1))
        \in {-1, 0, 1}

\* the returning step result r, whose last piece was `piece` and completes a
\* run iff last_wins, puts the win before the draw
WinBeforeDraw(r, piece, last_wins) ==
    /\ (r.ret.reward = 0 /\ r.ret.terminated) =>
           IsFull(r.board) /\ ~last_wins
    /\ r.ret.reward # piece => ~(IsFull(r.board) /\ last_wins)

\* C15: a win takes precedence over a draw: when the piece that fills the
\* last empty cell also completes a run, step returns +1 for the agent's
\* piece and -1 for the opponent's, never 0; (0, terminated) is returned
\* only when the board is full and the last piece placed completes no run.
C15_WinBeforeDraw ==
    started =>
        \A action \in Inputs :
            LET a  == step_agent(board, num_moves, action)
                b1 == Drop(board, action, 1)
            IN  IF a.pending
                THEN \A reply \in Inputs :
                         LET r == step_from(a, reply)
                         IN  r.ret.raised = "none" =>
                                 WinBeforeDraw(r, -1, DropWins(b1, reply, -1))
                ELSE a.ret.raised = "none" =>
                         WinBeforeDraw(a, 1, DropWins(board, action, 1))

\* a step returned a loss on a full board: the opponent's reply filled the
\* last cell and completed a run
C15_Witness ==
    /\ ret.op = "step" /\ ret.raised = "none"
    /\ ret.reward = -1 /\ ret.terminated /\ ret.opp_calls = 1
    /\ IsFull(board)
    /\ rows >= 2 /\ columns >= 2

\* plane 0 of obs marks exactly the cells of `viewer` on b, plane 1 exactly
\* the cells of the other player
ViewOf(obs, b, viewer) ==
    \A rc \in Cells :
        /\ obs[1][rc[1]][rc[2]] \in {0, 1}
        /\ obs[2][rc[1]][rc[2]] \in {0, 1}
        /\ obs[1][rc[1]][rc[2]] = 1 <=> b[rc[1]][rc[2]] = viewer
        /\ obs[2][rc[1]][rc[2]] = 1 <=> b[rc[1]][rc[2]] = -viewer

\* mask is the legal-move mask of b: true where the top cell is empty
MaskOf(mask, b) ==
    \A c \in 0 .. columns - 1 : mask[c] <=> b[rows - 1][c] = 0

\* C17: whenever the opponent is asked, in step and in reset's opening move,
\* it gets the observation from PlayerB's viewpoint and the legal-move mask,
\* both of the current board: in step that is the board with the agent's
\* piece of the same step, in reset the empty board.
C17_OpponentSeesCurrentBoard ==
    /\ LET r0 == reset(board, num_moves, TRUE, 0)
       IN  /\ ViewOf(r0.args[1], zeros, -1)
           /\ MaskOf(r0.args[2], zeros)
           /\ \A reply \in Inputs :
                  LET r == reset(board, num_moves, TRUE, reply)
                  IN  r.ret.opp_calls = 1 /\ r.args = r0.args
    /\ started =>
        \A action \in Inputs :
            LET a  == step_agent(board, num_moves, action)
                b1 == Drop(board, action, 1)
                r0 == step_from(a, 0)
            IN  a.pending =>
                    /\ ViewOf(r0.args[1], b1, -1)
                    /\ MaskOf(r0.args[2], b1)
                    /\ \A reply \in Inputs :
                           LET r == step_from(a, reply)
                           IN  r.ret.opp_calls = 1 /\ r.args = r0.args

\* a step asked the opponent on a board where both players have two pieces
\* or more and a column is full
C17_Witness ==
    /\ ret.op = "step" /\ ret.opp_calls = 1 /\ ret.raised = "none"
    /\ Cardinality(CellsOf(board, 1)) >= 2
    /\ Cardinality(CellsOf(board, -1)) >= 2
    /\ \E c \in 0 .. columns - 1 : ~ColumnOpen(board, c)
    /\ ~IsFull(board)

\* some column is legal by the action mask
SomeLegal(mask) == \E c \in 0 .. columns - 1 : mask[c]

\* C18: for every board size with rows >= 1 and columns >= 1 the
\* action mask has a true entry after reset returns and after every step
\* that returns terminated = false, and so has every mask handed to the
\* opponent.
C18_LegalMoveExists ==
    /\ (ret.op = "reset" /\ ret.raised = "none") =>
        SomeLegal(action_masks(board))
    /\ (ret.op = "step" /\ ret.raised = "none" /\ ~ret.terminated) =>
        SomeLegal(action_masks(board))
    /\ \A reply \in Inputs :
        SomeLegal(reset(board, num_moves, TRUE, reply).args[2])
    /\ started =>
        \A action \in Inputs, reply \in Inputs :
            LET r == step(board, num_moves, action, reply)
            IN  r.ret.opp_calls > 0 => SomeLegal(r.args[2])

\* C14: with win_length >= 2, in every state reached after reset by steps
\* that all returned terminated = false, a scan of the whole board finds no
\* run of win_length or more equal pieces, for either player (steps that
\* raised in between included).
C14_NoRunWhileInProgress ==
    live => \A rc \in OccupiedCells(board) : ~HasRun(board, rc[1], rc[2])

\* an episode in progress after a returning step, with four pieces or more
\* on a board of two rows and two columns or more
C14_Witness ==
    /\ live /\ ret.op = "step" /\ ret.raised = "none" /\ ~ret.terminated
    /\ rows >= 2 /\ columns >= 2
    /\ Cardinality(OccupiedCells(board)) >= 4

\* ceil(rows * columns / 2)
MaxSteps == (rows * columns + 1) \div 2

\* C19: every episode ends: with legal actions and legal replies, each step
\* that returns terminated = false adds exactly 2 to the move count, so an
\* episode has fewer than ceil(rows * columns / 2) such steps, and the step
\* call number ceil(rows * columns / 2), when it is reached, returns
\* terminated = true.
C19_EpisodeEnds ==
    /\ steps >= 0 =>
        /\ steps < MaxSteps
        /\ num_moves >= 2 * steps
        /\ live
    /\ started =>
        \A action \in Inputs :
            LET a == step_agent(board, num_moves, action)
            IN  \A reply \in Inputs :
                    LET r == step_from(a, reply)
                    IN  r.ret.raised = "none" =>
                            /\ ~r.ret.terminated =>
                                   r.num_moves = num_moves + 2
                            /\ steps = MaxSteps - 1 => r.ret.terminated

\* an episode of legal calls has come to its last step call the bound
\* allows: ceil(rows * columns / 2) - 1 steps have returned terminated =
\* false, on a board of four cells or more
C19_Witness ==
    /\ ret.op = "step" /\ ret.raised = "none" /\ ~ret.terminated
    /\ live /\ steps >= 1 /\ steps = MaxSteps - 1
    /\ rows * columns >= 4 /\ columns >= 2

\* the step result s is a return of reward 0 with terminated = false
Continues(s) ==
    s.ret.raised = "none" /\ s.ret.reward = 0 /\ ~s.ret.terminated

\* the board after k rounds of the scenario: k agent pieces at the bottom of
\* column 3 and k opponent pieces at the bottom of column 0
RoundsBoard(k) ==
    [r \in 0 .. rows - 1 |->
        [c \in 0 .. columns - 1 |->
            IF r < k /\ c = 3 THEN 1
            ELSE IF r < k /\ c = 0 THEN -1
            ELSE 0]]

\* C12: on the 6 x 7 board with win_length 4, from the empty board and with
\* an opponent that always plays column 0, four step(3) calls in a row: the
\* first three return reward 0 with terminated = false; the fourth puts the
\* agent's piece at row 3 of column 3, the win check is true at that cell,
\* and step returns reward 1 with terminated = true.
C12_FourInColumnThree ==
    (started /\ rows = 6 /\ columns = 7 /\ win_length = 4) =>
        /\ \A k \in 0 .. 2 :
            (board = RoundsBoard(k) /\ num_moves = 2 * k) =>
                LET s == step(board, num_moves, 3, 0)
                IN  /\ Continues(s)
                    /\ s.board = RoundsBoard(k + 1)
                    /\ s.num_moves = 2 * (k + 1)
        /\ (board = RoundsBoard(3) /\ num_moves = 6) =>
                LET s == step(board, num_moves, 3, 0)
                IN  /\ s.board = Place(board, 3, 3, 1)
                    /\ board[3][3] = 0 /\ s.board[3][3] = 1
                    /\ is_win(s.board, 3, 3)
                    /\ HasRun(s.board, 3, 3)
                    /\ s.ret.raised = "none"
                    /\ s.ret.reward = 1 /\ s.ret.terminated
                    /\ s.ret.opp_calls = 0

\* the fourth step(3) has returned: four agent pieces in column 3, the
\* opponent's three in column 0, reward 1 and terminated
C12_Witness ==
    /\ rows = 6 /\ columns = 7 /\ win_length = 4
    /\ \A r \in 0 .. 3 : board[r][3] = 1
    /\ \A r \in 0 .. 2 : board[r][0] = -1
    /\ num_moves = 7
    /\ Cardinality(OccupiedCells(board)) = 7
    /\ ret.op = "step" /\ ret.raised = "none"
    /\ ret.reward = 1 /\ ret.terminated /\ ret.opp_calls = 0

====
